---- MODULE Spec2Model ----
(***************************************************************************)
(* ChatViewer: the archive query and text-recovery engine of               *)
(* CustomDatabaseService.ts over the native ChatDatabaseManager.swift.     *)
(*                                                                         *)
(* Strings are sequences of character codes.  A raw timestamp, which the   *)
(* program holds in a 64-bit integer / a double, is a pair [hi, lo] that   *)
(* stands for hi * 10^9 + lo with 0 <= lo < 10^9, so that nanosecond       *)
(* values above 10^15 are kept exactly.                                    *)
(***************************************************************************)
EXTENDS Integers, Sequences, FiniteSets, TLC

VARIABLES
    row,        \* decoder harness: the MessageRow handed to extractMessageText
    decoded,    \* decoder harness: what extractMessageText returned for row
    store,      \* the message table with each message's chat_message_join rows
    ret,        \* the outcome of the last service call
    svc,        \* the connection: the service's fields, the native manager's
                \* handle, the open SQLite connections, the running statements
    ui          \* MainScreen: its state, the state its last render showed,
                \* the service calls its handlers are waiting for

vars == <<row, decoded, store, ret, svc, ui>>

(***************************************************************************)
(* Characters and strings                                                  *)
(***************************************************************************)
\* SQL NULL / JS null or undefined, for a nullable string or blob column.
Null == <<-1>>

sNSString   == <<78, 83, 83, 116, 114, 105, 110, 103>>
sNSMutable  == <<78, 83, 77, 117, 116, 97, 98, 108, 101>>
sCFString   == <<67, 70, 83, 116, 114, 105, 110, 103>>
sBplist     == <<98, 112, 108, 105, 115, 116>>
sUnderscores == <<95, 95>>
sOpenString == <<60, 115, 116, 114, 105, 110, 103, 62>>
sCloseString == <<60, 47, 115, 116, 114, 105, 110, 103, 62>>
sRichText   == <<91, 82, 105, 99, 104, 32, 84, 101, 120, 116, 32,
                 77, 101, 115, 115, 97, 103, 101, 93>>
sAttachment == <<91, 65, 116, 116, 97, 99, 104, 109, 101, 110, 116, 93>>
sEmptyMessage == <<91, 69, 109, 112, 116, 121, 32,
                   77, 101, 115, 115, 97, 103, 101, 93>>

\* Sample content used by the bounded inputs.
sHelloWorld == <<104, 101, 108, 108, 111, 32, 119, 111, 114, 108, 100>>
sHello      == <<104, 101, 108, 108, 111>>
sHi         == <<104, 105>>
sAbcd       == <<97, 98, 99, 100>>
sPadHey     == <<32, 32, 72, 101, 121>>
sQuotedHi   == <<34, 72, 105, 33, 34>>
sPlistHi    == sOpenString \o sHi \o sCloseString
sSep        == <<1>>

\* "hello world" behind an NSString noise prefix.
ScenarioBlobB == sNSString \o sSep \o sHelloWorld

Quote == 34
LessThan == 60

\* String.prototype.trim strips these code units (within one byte).
IsWhite(c) == c \in {9, 10, 11, 12, 13, 32, 160}

\* [\x20-\x7E], and bytes[i] >= 32 && bytes[i] <= 126
IsPrintable(c) == c >= 32 /\ c <= 126

RECURSIVE DropLeadingWhite(_)
DropLeadingWhite(s) ==
    IF s # <<>> /\ IsWhite(Head(s)) THEN DropLeadingWhite(Tail(s)) ELSE s

RECURSIVE DropTrailingWhite(_)
DropTrailingWhite(s) ==
    IF s # <<>> /\ IsWhite(s[Len(s)])
    THEN DropTrailingWhite(SubSeq(s, 1, Len(s) - 1))
    ELSE s

\* String.prototype.trim
Trim(s) == DropTrailingWhite(DropLeadingWhite(s))

\* String.prototype.includes: t occurs in s at some position.
Includes(s, t) ==
    \E i \in 1..(Len(s) - Len(t) + 1) : SubSeq(s, i, i + Len(t) - 1) = t

\* String.prototype.toLowerCase, on the ASCII letters.
ToLowerCase(s) ==
    [i \in 1..Len(s) |-> IF s[i] >= 65 /\ s[i] <= 90 THEN s[i] + 32 ELSE s[i]]

\* The first position at or after i that holds no printable character.
RECURSIVE RunEnd(_, _)
RunEnd(s, i) ==
    IF i <= Len(s) /\ IsPrintable(s[i]) THEN RunEnd(s, i + 1) ELSE i

\* The printable run that starts at position i (empty when s[i] is not printable).
RunAt(s, i) == SubSeq(s, i, RunEnd(s, i) - 1)

\* bodyStr.match(/[\x20-\x7E]{4,}/g): the maximal printable runs of at least
\* MinRun characters, left to right (an empty sequence stands for null).
MinRun == 4

RECURSIVE MatchRuns(_, _)
MatchRuns(s, i) ==
    IF i > Len(s) THEN <<>>
    ELSE LET r == RunAt(s, i)
         IN  IF Len(r) >= MinRun THEN <<r>> \o MatchRuns(s, i + Len(r))
             ELSE MatchRuns(s, i + Len(r) + (IF Len(r) = 0 THEN 1 ELSE 0))

(***************************************************************************)
(* Content decoder: CustomDatabaseService.extractMessageText               *)
(***************************************************************************)
\* How the bridge delivers a BLOB column: as a string of code units or as an
\* object whose data property is the byte array.
BodyForms == {"string", "bytes"}

\* if (message.attributedBody): null and the empty string are falsy, an
\* object is truthy whatever it holds.
BodyTruthy(m) ==
    /\ m.attributedBody # Null
    /\ (m.bodyForm = "string" => m.attributedBody # <<>>)

\* The filter of Method 1: no structural-noise token and more than MinRun
\* characters.
NoNoise(match) ==
    /\ ~Includes(match, sNSString)
    /\ ~Includes(match, sNSMutable)
    /\ ~Includes(match, sCFString)
    /\ ~Includes(match, sBplist)
    /\ ~Includes(match, sUnderscores)
    /\ Len(match) > MinRun

\* A reduce that keeps its first element: the selection of the longest lost.
ReduceFirst(a, rest) == a

\* filteredMatches.reduce((a, b) => a.length > b.length ? a : b)
RECURSIVE ReduceLongest(_, _)
ReduceLongest(a, rest) ==
    IF rest = <<>> THEN a
    ELSE ReduceLongest(IF Len(a) > Len(Head(rest)) THEN a ELSE Head(rest),
                       Tail(rest))

\* Method 1.  <<>> stands for "no return": otherwise <<text>>.
Method1(bodyStr) ==
    LET readableTextMatches == MatchRuns(bodyStr, 1)
        filteredMatches == SelectSeq(readableTextMatches, NoNoise)
    IN  IF readableTextMatches # <<>> /\ filteredMatches # <<>>
        THEN LET longestMatch ==
                    ReduceLongest(Head(filteredMatches), Tail(filteredMatches))
             IN  IF Len(longestMatch) > MinRun
                 THEN <<Trim(longestMatch)>>
                 ELSE <<>>
        ELSE <<>>

\* Method 2 keeps a printable sequence only when it is longer than this.
MinByteText == 10

\* The loop of Method 2: for (i = 0; i < bytes.length - 3; i++), 1-based here.
RECURSIVE Method2Scan(_, _, _)
Method2Scan(bytes, i, text) ==
    IF i > Len(bytes) - 3 THEN text
    ELSE LET sequence == RunAt(bytes, i)
         IN  Method2Scan(bytes, i + 1,
                 IF Len(sequence) > Len(text) /\ Len(sequence) > MinByteText
                 THEN sequence ELSE text)

\* Method 2, taken only for an object with a data array.
Method2(m) ==
    IF m.bodyForm = "bytes"
    THEN LET text == Method2Scan(m.attributedBody, 1, <<>>)
         IN  IF /\ Len(text) > MinByteText
                /\ ~Includes(text, sNSString)
                /\ ~Includes(text, sBplist)
             THEN <<Trim(text)>>
             ELSE <<>>
    ELSE <<>>

\* The least j >= i with s[j] = c, or 0.
IndexOfFrom(s, c, i) ==
    IF \E j \in i..Len(s) : s[j] = c
    THEN CHOOSE j \in i..Len(s) : s[j] = c /\ \A k \in i..(j - 1) : s[k] # c
    ELSE 0

\* bodyStr.match(/NSString[^"]*"([^"]+)"/): group 1 of the leftmost match.
RECURSIVE MatchNSStringQuoted(_, _)
MatchNSStringQuoted(s, p) ==
    IF p + Len(sNSString) - 1 > Len(s) THEN <<>>
    ELSE IF SubSeq(s, p, p + Len(sNSString) - 1) # sNSString
         THEN MatchNSStringQuoted(s, p + 1)
         ELSE LET q1 == IndexOfFrom(s, Quote, p + Len(sNSString))
                  q2 == IF q1 = 0 THEN 0 ELSE IndexOfFrom(s, Quote, q1 + 1)
              IN  IF q2 > q1 + 1
                  THEN <<SubSeq(s, q1 + 1, q2 - 1)>>
                  ELSE MatchNSStringQuoted(s, p + 1)

\* bodyStr.match(/<string>([^<]+)<\/string>/): group 1 of the leftmost match.
RECURSIVE MatchPlistString(_, _)
MatchPlistString(s, p) ==
    IF p + Len(sOpenString) - 1 > Len(s) THEN <<>>
    ELSE IF SubSeq(s, p, p + Len(sOpenString) - 1) # sOpenString
         THEN MatchPlistString(s, p + 1)
         ELSE LET e == IndexOfFrom(s, LessThan, p + Len(sOpenString))
              IN  IF /\ e > p + Len(sOpenString)
                     /\ e + Len(sCloseString) - 1 <= Len(s)
                     /\ SubSeq(s, e, e + Len(sCloseString) - 1) = sCloseString
                  THEN <<SubSeq(s, p + Len(sOpenString), e - 1)>>
                  ELSE MatchPlistString(s, p + 1)

\* The attributedBody branch of extractMessageText.
DecodeBody(m) ==
    LET bodyStr == m.attributedBody
        m1 == Method1(bodyStr)
        m2 == Method2(m)
        stringMatches == MatchNSStringQuoted(bodyStr, 1)
        plistTextMatches == MatchPlistString(bodyStr, 1)
    IN  IF m1 # <<>> THEN m1[1]
        ELSE IF m2 # <<>> THEN m2[1]
        ELSE IF stringMatches # <<>> THEN stringMatches[1]
        ELSE IF plistTextMatches # <<>> THEN plistTextMatches[1]
        ELSE sRichText

\* message.text && typeof message.text === 'string' && message.text.trim()
HasPlainText(m) == m.text # Null /\ Trim(m.text) # <<>>

\* The decoder with the attributedBody branch tried before the plain text.
extractMessageTextBodyFirst(m) ==
    IF BodyTruthy(m) THEN DecodeBody(m)
    ELSE IF HasPlainText(m) THEN Trim(m.text)
    ELSE IF m.cache_has_attachments = 1 THEN sAttachment
    ELSE sEmptyMessage

extractMessageText(m) ==
    IF HasPlainText(m) THEN Trim(m.text)
    ELSE IF BodyTruthy(m) THEN DecodeBody(m)
    ELSE IF m.cache_has_attachments = 1 THEN sAttachment
    ELSE sEmptyMessage

\* The harness row and the call outcome before anything was decoded or called.
NoRow == [text |-> Null, attributedBody |-> Null, bodyForm |-> "string",
          cache_has_attachments |-> 0]

NoRet == [op |-> "none"]

(***************************************************************************)
(* MainScreen: the state of the component                                  *)
(***************************************************************************)
\* What a render captures: the state the handlers created by that render and
\* the props of ConversationList and MessageThread read.
NewView ==
    [selectedChat |-> 0, isLoading |-> FALSE, isLoadingMoreMessages |-> FALSE,
     hasMoreMessages |-> TRUE, messageOffset |-> 0, searchResults |-> <<>>,
     searchQuery |-> <<>>]

\* The useState initial values (0 for a null selectedChat); seen is the state
\* of the last render, calls the service calls awaited by handlers or left
\* running by a timeout, invoked the number of handler invocations so far,
\* faults the number of calls that failed or timed out, issued the
\* getMessagesForChat queries issued by handleChatSelected and
\* loadMoreMessages, emptyFetches how many of them returned no row, returned
\* the row count of the last one that returned (-1 for none).
NewScreen ==
    [selectedChat |-> 0, isLoading |-> FALSE, messages |-> <<>>,
     isLoadingMoreMessages |-> FALSE, hasMoreMessages |-> TRUE,
     messageOffset |-> 0, searchResults |-> <<>>, isSearching |-> FALSE,
     searchQuery |-> <<>>, chats |-> {},
     seen |-> NewView, calls |-> <<>>, invoked |-> 0, faults |-> 0,
     issued |-> <<>>, emptyFetches |-> 0, returned |-> -1]

(***************************************************************************)
(* The connection: CustomDatabaseService.openDatabase / closeDatabase over *)
(* ChatDatabaseManager.openDatabase / closeDatabase                        *)
(***************************************************************************)
\* null for a path.
NoPath == "null"

\* ${RNFS.TemporaryDirectoryPath}/chat.db, the copy an external file is opened from.
TempChatDb == "tmp/chat.db"

\* The paths of the bounded calls: the unsupported test database, the main
\* chat.db that is opened in place, two external files.
TestDbPath == "/tmp/test_messages.db"
MainDbPath == "/Users/daniel/Documents/Messages/chat.db"
Paths == {TestDbPath, MainDbPath, "/data/a.db", "/data/b.db"}

\* The branch of openDatabase a path takes.
PathKind(path) ==
    IF path = TestDbPath THEN "test"
    ELSE IF path = MainDbPath THEN "main"
    ELSE "external"

\* What can go wrong in openDatabase before the native open, in the native
\* open, and in the connection test after it.
CopyFaults == {"file missing", "file too large", "copy failed", "bad header",
               "copy missing"}
NativeOpenFaults == {"FILE_NOT_FOUND", "FILE_NOT_READABLE",
                     "FILE_ATTRIBUTES_ERROR", "SQLITE_ERROR"}
TestFaults == {"test query rejected", "no chat table"}

FaultsOf(path) ==
    IF PathKind(path) = "test" THEN {"not supported"}
    ELSE IF PathKind(path) = "main"
    THEN {"none"} \cup NativeOpenFaults \cup TestFaults
    ELSE {"none"} \cup CopyFaults \cup NativeOpenFaults \cup TestFaults

\* A service just constructed over a native manager that has opened nothing.
\* db is the native handle (0 for nil), open the SQLite connections opened
\* and not closed, opened the number of successful sqlite3_open_v2 calls,
\* calls the service calls in flight, active the callers whose statement is
\* prepared and not yet finalized.
NewService ==
    [connected |-> FALSE, dbPath |-> NoPath,
     db |-> 0, nativePath |-> NoPath, open |-> {}, opened |-> 0,
     calls |-> <<>>, active |-> {}]

\* The service after a successful openDatabase of the main chat.db.
OpenService ==
    [connected |-> TRUE, dbPath |-> MainDbPath,
     db |-> 1, nativePath |-> MainDbPath, open |-> {1}, opened |-> 1,
     calls |-> <<>>, active |-> {}]

\* ChatDatabaseManager.closeDatabase left without effect.
NativeCloseDatabaseSkipped(s) == s

\* The callers whose statement is prepared on handle h and not finalized.
StatementsOn(s, h) == {c \in s.active : s.calls[c].db = h}

\* ChatDatabaseManager.closeDatabase.  sqlite3_close leaves a connection
\* with unfinalized statements open (SQLITE_BUSY); db is set to nil anyway.
NativeCloseDatabase(s) ==
    IF s.db # 0
    THEN [s EXCEPT !.open = IF StatementsOn(s, s.db) = {} THEN @ \ {s.db}
                             ELSE @,
                   !.db = 0, !.nativePath = NoPath]
    ELSE s

\* ChatDatabaseManager.openDatabase: [svc, ok], ok when the promise resolves.
NativeOpenDatabase(s, path, fault) ==
    LET closed == NativeCloseDatabase(s)
    IN  IF fault \in NativeOpenFaults
        THEN \* rejected before sqlite3_open_v2, or by it: the handle it left
             \* is closed and db is nil
             [svc |-> closed, ok |-> FALSE]
        ELSE [svc |-> [closed EXCEPT !.db = closed.opened + 1,
                                     !.open = @ \cup {closed.opened + 1},
                                     !.opened = @ + 1,
                                     !.nativePath = path],
              ok |-> TRUE]

\* The catch block of openDatabase.
OpenFailed(s) ==
    [svc |-> [s EXCEPT !.connected = FALSE, !.dbPath = NoPath],
     status |-> "error"]

\* CustomDatabaseService.openDatabase: [svc, status].
openDatabase(s, path, fault) ==
    LET s0 == IF s.connected
              THEN [NativeCloseDatabase(s) EXCEPT !.connected = FALSE]
              ELSE s
        target == IF PathKind(path) = "main" THEN path ELSE TempChatDb
        native == NativeOpenDatabase(s0, target, fault)
        s1 == [native.svc EXCEPT !.dbPath = target, !.connected = TRUE]
    IN  IF PathKind(path) = "test" \/ fault \in CopyFaults
        THEN OpenFailed(s0)
        ELSE IF ~native.ok
        THEN OpenFailed(native.svc)
        ELSE IF fault \in TestFaults
        THEN OpenFailed(s1)
        ELSE [svc |-> s1, status |-> "ok"]

\* CustomDatabaseService.closeDatabase
closeDatabase(s) ==
    [(IF s.connected
      THEN [NativeCloseDatabase(s) EXCEPT !.connected = FALSE]
      ELSE s) EXCEPT !.dbPath = NoPath]

\* At most this many successful opens in a behaviour.
MaxOpens == 3

\* One call of openDatabase, run to completion.
OpenDatabase ==
    /\ svc.opened < MaxOpens
    /\ \E path \in Paths :
        \E fault \in FaultsOf(path) :
            LET result == openDatabase(svc, path, fault)
            IN  /\ svc' = result.svc
                /\ ret' = [op |-> "openDatabase", path |-> path,
                           fault |-> fault, status |-> result.status,
                           hadConnection |-> svc.db # 0]
    /\ UNCHANGED <<row, decoded, store, ui>>

\* One call of closeDatabase, run to completion.
CloseDatabase ==
    /\ svc' = closeDatabase(svc)
    /\ ret' = [op |-> "closeDatabase", status |-> "ok"]
    /\ UNCHANGED <<row, decoded, store, ui>>

InitConnection ==
    /\ row = NoRow
    /\ decoded = Null
    /\ store = <<>>
    /\ ret = NoRet
    /\ svc = NewService
    /\ ui = NewScreen

NextConnection == OpenDatabase \/ CloseDatabase

SpecConnection == InitConnection /\ [][NextConnection]_vars

(***************************************************************************)
(* Statements in flight: the handlers of MainScreen calling the service,   *)
(* ChatDatabaseManager.executeQuery running each statement in a block on   *)
(* DispatchQueue.global, a concurrent queue                                *)
(***************************************************************************)
\* The handlers that call the service, none of which waits for another.
Callers == {"handleDatabaseSelected", "handleChatSelected",
            "handleMessageSearch", "handleSearchResultSelected"}

\* The service call of each handler once the connection is open.
OperationOf(caller) ==
    IF caller = "handleDatabaseSelected" THEN "getChats"
    ELSE IF caller = "handleChatSelected" THEN "getMessagesForChat"
    ELSE IF caller = "handleMessageSearch" THEN "searchMessages"
    ELSE "getMessagesAroundMessage"

\* How many statements a call issues, one after the other, when none fails:
\* getChats counts and lists, searchMessages runs Phase 1 and the broad
\* query, getMessagesAroundMessage lists the chat and, when the target is
\* absent, fetches the default page.
StatementCounts(op) ==
    IF op = "getChats" THEN {2}
    ELSE IF op = "getMessagesForChat" THEN {1}
    ELSE IF op = "searchMessages" THEN {2}
    ELSE {1, 2}

\* A service with an open connection and no call in flight.
IdleService ==
    [OpenService EXCEPT !.calls = [c \in Callers |-> [pc |-> "idle", left |-> 0]]]

\* A handler calls the service: the call's first statement is dispatched.
Request(c) ==
    /\ svc.connected
    /\ svc.calls[c].pc = "idle"
    /\ \E n \in StatementCounts(OperationOf(c)) :
        svc' = [svc EXCEPT !.calls[c] = [pc |-> "queued", left |-> n]]
    /\ UNCHANGED <<row, decoded, store, ret, ui>>

\* The block of executeQuery starts: db is nil or the statement is not
\* prepared, and the call is rejected; or the statement is prepared.
Begin(c) ==
    /\ svc.calls[c].pc = "queued"
    /\ \E prepared \in BOOLEAN :
        IF svc.db # 0 /\ prepared
        THEN /\ svc' = [svc EXCEPT !.calls[c].pc = "running",
                                   !.active = @ \cup {c}]
             /\ UNCHANGED ret
        ELSE /\ svc' = [svc EXCEPT !.calls[c] = [pc |-> "idle", left |-> 0]]
             /\ ret' = [op |-> OperationOf(c), caller |-> c,
                        status |-> "error"]
    /\ UNCHANGED <<row, decoded, store, ui>>

\* The block steps to the last row, finalizes the statement and resolves;
\* the call issues its next statement or returns.
Finish(c) ==
    /\ svc.calls[c].pc = "running"
    /\ IF svc.calls[c].left > 1
       THEN /\ svc' = [svc EXCEPT !.calls[c] = [pc |-> "queued", left |-> @.left - 1],
                                  !.active = @ \ {c}]
            /\ UNCHANGED ret
       ELSE /\ svc' = [svc EXCEPT !.calls[c] = [pc |-> "idle", left |-> 0],
                                  !.active = @ \ {c}]
            /\ ret' = [op |-> OperationOf(c), caller |-> c, status |-> "ok"]
    /\ UNCHANGED <<row, decoded, store, ui>>

InitStatements ==
    /\ row = NoRow
    /\ decoded = Null
    /\ store = <<>>
    /\ ret = NoRet
    /\ svc = IdleService
    /\ ui = NewScreen

NextStatements == \E c \in Callers : Request(c) \/ Begin(c) \/ Finish(c)

SpecStatements == InitStatements /\ [][NextStatements]_vars

(***************************************************************************)
(* A query overlapping a close: the block of executeQuery reads self.db,   *)
(* prepares, steps and finalizes on DispatchQueue.global while             *)
(* closeDatabase and openDatabase run without synchronization              *)
(***************************************************************************)
\* The handlers whose queries overlap the close: one statement, or one or two.
QueryCallers == {"handleChatSelected", "handleSearchResultSelected"}

\* A service with an open connection, no call in flight, no handle captured.
IdleHandleService ==
    [OpenService EXCEPT
        !.calls = [c \in QueryCallers |->
                      [pc |-> "idle", left |-> 0, db |-> 0]]]

\* A handler calls the service: the guard of the service method throws
\* 'Database is not open', or the call's first statement is dispatched.
ExecuteQuery(c) ==
    /\ svc.calls[c].pc = "idle"
    /\ IF svc.connected
       THEN /\ \E n \in StatementCounts(OperationOf(c)) :
                 svc' = [svc EXCEPT !.calls[c] =
                             [pc |-> "queued", left |-> n, db |-> 0]]
            /\ UNCHANGED ret
       ELSE /\ ret' = [op |-> OperationOf(c), caller |-> c,
                       status |-> "Database is not open"]
            /\ UNCHANGED svc
    /\ UNCHANGED <<row, decoded, store, ui>>

\* The block starts: guard let db = self.db, rejecting when db is nil.
ExecuteQueryGuard(c) ==
    /\ svc.calls[c].pc = "queued"
    /\ IF svc.db # 0
       THEN /\ svc' = [svc EXCEPT !.calls[c].pc = "guarded",
                                  !.calls[c].db = svc.db]
            /\ UNCHANGED ret
       ELSE /\ svc' = [svc EXCEPT !.calls[c] =
                           [pc |-> "idle", left |-> 0, db |-> 0]]
            /\ ret' = [op |-> OperationOf(c), caller |-> c,
                       status |-> "Database is not open"]
    /\ UNCHANGED <<row, decoded, store, ui>>

\* sqlite3_prepare_v2(db, ...) on the handle the guard read.  On an open
\* connection the statement is prepared or the call is rejected; on a handle
\* closed in between the call is undefined: it may fail or go on.
ExecuteQueryPrepare(c) ==
    /\ svc.calls[c].pc = "guarded"
    /\ \E prepared \in BOOLEAN :
        /\ svc' = IF prepared
                  THEN [svc EXCEPT !.calls[c].pc = "running",
                                   !.active = @ \cup {c}]
                  ELSE [svc EXCEPT !.calls[c] =
                            [pc |-> "idle", left |-> 0, db |-> 0]]
        /\ ret' = [op |-> "sqlite3_prepare_v2", caller |-> c,
                   status |-> IF prepared THEN "ok" ELSE "error",
                   open |-> svc.calls[c].db \in svc.open]
    /\ UNCHANGED <<row, decoded, store, ui>>

\* The block steps to the last row, finalizes the statement and resolves;
\* the call issues its next statement or returns.
ExecuteQueryFinish(c) ==
    /\ svc.calls[c].pc = "running"
    /\ IF svc.calls[c].left > 1
       THEN svc' = [svc EXCEPT !.calls[c] =
                        [pc |-> "queued", left |-> @.left - 1, db |-> 0],
                               !.active = @ \ {c}]
       ELSE svc' = [svc EXCEPT !.calls[c] =
                        [pc |-> "idle", left |-> 0, db |-> 0],
                               !.active = @ \ {c}]
    /\ ret' = [op |-> "sqlite3_finalize", caller |-> c, status |-> "ok",
               open |-> svc.calls[c].db \in svc.open]
    /\ UNCHANGED <<row, decoded, store, ui>>

\* closeDatabase called while queries are in flight (the cleanup of
\* MainScreen calls it whenever the service is connected).
CloseDuringQuery ==
    /\ svc.connected
    /\ svc' = closeDatabase(svc)
    /\ ret' = [op |-> "closeDatabase", status |-> "ok"]
    /\ UNCHANGED <<row, decoded, store, ui>>

\* openDatabase called while queries are in flight: the native open closes
\* the current connection first.
OpenDuringQuery ==
    /\ svc.opened < MaxOpens
    /\ \E fault \in {"none", "SQLITE_ERROR"} :
        LET result == openDatabase(svc, MainDbPath, fault)
        IN  /\ svc' = result.svc
            /\ ret' = [op |-> "openDatabase", status |-> result.status]
    /\ UNCHANGED <<row, decoded, store, ui>>

InitHandles ==
    /\ row = NoRow
    /\ decoded = Null
    /\ store = <<>>
    /\ ret = NoRet
    /\ svc = IdleHandleService
    /\ ui = NewScreen

NextHandles ==
    \/ \E c \in QueryCallers : \/ ExecuteQuery(c)
                               \/ ExecuteQueryGuard(c)
                               \/ ExecuteQueryPrepare(c)
                               \/ ExecuteQueryFinish(c)
    \/ CloseDuringQuery
    \/ OpenDuringQuery

SpecHandles == InitHandles /\ [][NextHandles]_vars

(***************************************************************************)
(* Timestamp normalizer: CustomDatabaseService.convertAppleTimestamp       *)
(***************************************************************************)
Billion == 1000000000

\* The integer hi * 10^9 + lo.
Big(hi, lo) == [hi |-> hi, lo |-> lo]

BigLess(a, b) == a.hi < b.hi \/ (a.hi = b.hi /\ a.lo < b.lo)

\* 1e15
NanosecondThreshold == Big(1000000, 0)

\* Seconds between 1970-01-01 and 2001-01-01.
AppleEpochOffset == 978307200

\* A Date: whole Unix seconds (a Big) and the milliseconds within the second.
DateOf(sec, ms) == [sec |-> sec, ms |-> ms]

\* appleSeconds + 978307200
AddEpochOffset(sec) ==
    LET l == sec.lo + AppleEpochOffset
    IN  IF l >= Billion THEN Big(sec.hi + 1, l - Billion) ELSE Big(sec.hi, l)

\* new Date(), the clock reading t in Unix seconds.
CurrentDate(t) == DateOf(Big(t \div Billion, t % Billion), 0)

\* The Date whose time value is NaN.
InvalidDate == DateOf(Big(0, 0), -1)

\* The largest time value of a Date, 8.64e15 ms, in seconds.
MaxDateSeconds == Big(8640, 0)

\* new Date(unixTimestamp * 1000): unixTimestamp is sec whole seconds and
\* nanos nanoseconds; a time value beyond +-8.64e15 ms gives the invalid Date.
NewDate(sec, nanos) ==
    IF \/ BigLess(MaxDateSeconds, sec)
       \/ sec = MaxDateSeconds /\ nanos >= 1000000
       \/ BigLess(sec, Big(0 - MaxDateSeconds.hi, 0))
    THEN InvalidDate
    ELSE DateOf(sec, nanos \div 1000000)

\* convertAppleTimestamp(timestamp), t being what new Date() would return.
\* timestamp is a finite number: Big(hi, lo) with any integer hi.
convertAppleTimestamp(timestamp, t) ==
    IF timestamp = Big(0, 0)
    THEN CurrentDate(t)
    ELSE IF BigLess(NanosecondThreshold, timestamp)
    THEN NewDate(AddEpochOffset(Big(timestamp.hi \div Billion,
                                    timestamp.hi % Billion)),
                 timestamp.lo)
    ELSE NewDate(AddEpochOffset(timestamp), 0)

DateLess(a, b) ==
    \/ BigLess(a.sec, b.sec)
    \/ a.sec = b.sec /\ a.ms < b.ms

(***************************************************************************)
(* The store and the queries of ChatDatabaseManager.swift                  *)
(***************************************************************************)
\* chat table: ROWID, display_name, chat_identifier.
ChatIds == {1, 2}
sHelloName == <<72, 101, 108, 108, 111>>
sRich == <<114, 105, 99, 104>>
chat_display_name(c) == IF c = 2 THEN sHelloName ELSE Null
chat_identifier(c) == IF c = 2 THEN <<99, 50>> ELSE <<99, 49>>

\* field LIKE '%term%': NULL never matches, ASCII letters compare without case.
\* (The bounded search terms hold no % or _ wildcard.)
Like(field, term) ==
    field # Null /\ Includes(ToLowerCase(field), ToLowerCase(term))

\* One row of message LEFT JOIN handle LEFT JOIN chat_message_join LEFT JOIN
\* chat; chat_id 0 stands for the NULL of a message without join row.  No
\* message of the bounded stores has a handle, a subject or an associated guid.
JoinedRow(m, c) ==
    [id |-> m.id, text |-> m.text, attributedBody |-> m.attributedBody,
     bodyForm |-> m.bodyForm, cache_has_attachments |-> m.cache_has_attachments,
     date |-> m.date, message_service |-> m.service,
     handle_name |-> Null, subject |-> Null, associated_message_guid |-> Null,
     chat_id |-> c,
     chat_display_name |-> IF c = 0 THEN Null ELSE chat_display_name(c),
     chat_identifier |-> IF c = 0 THEN Null ELSE chat_identifier(c)]

\* The rows the LEFT JOINs give for message m, in chat ROWID order.
JoinedRowsOf(m) ==
    IF m.chats = {} THEN <<JoinedRow(m, 0)>>
    ELSE (IF 1 \in m.chats THEN <<JoinedRow(m, 1)>> ELSE <<>>)
         \o (IF 2 \in m.chats THEN <<JoinedRow(m, 2)>> ELSE <<>>)

\* The joined rows of the messages lo..hi, in ROWID (scan) order.
RECURSIVE JoinedRowsBetween(_, _, _)
JoinedRowsBetween(st, lo, hi) ==
    IF lo > hi THEN <<>>
    ELSE IF lo = hi THEN JoinedRowsOf(st[lo])
    ELSE JoinedRowsBetween(st, lo, (lo + hi) \div 2)
         \o JoinedRowsBetween(st, (lo + hi) \div 2 + 1, hi)

\* FROM message m LEFT JOIN ... : every joined row, in ROWID (scan) order.
AllJoinedRows(st, i) == JoinedRowsBetween(st, i, Len(st))

\* F applied to the value of v, which is computed once.
With(v, F(_)) == CHOOSE r \in {F(x) : x \in {v}} : TRUE

\* The place of row i under ORDER BY m.date DESC: after every row of a later
\* date and after the rows of its own date that were scanned before it.
PlaceDesc(all, i) ==
    1 + Cardinality({j \in 1..Len(all) :
                        \/ BigLess(all[i].date, all[j].date)
                        \/ (j < i /\ all[j].date = all[i].date)})

\* ORDER BY m.date DESC: rows of equal date keep their scan order.
OrderByDateDesc(rows, sorted) ==
    With(sorted \o rows, LAMBDA all :
        With({<<PlaceDesc(all, i), i>> : i \in 1..Len(all)}, LAMBDA places :
            [k \in 1..Len(all) |-> all[(CHOOSE p \in places : p[1] = k)[2]]]))

\* The place of row i under ORDER BY m.date ASC.
PlaceAsc(all, i) ==
    1 + Cardinality({j \in 1..Len(all) :
                        \/ BigLess(all[j].date, all[i].date)
                        \/ (j < i /\ all[j].date = all[i].date)})

\* ORDER BY m.date ASC: rows of equal date keep their scan order.
OrderByDateAsc(rows, sorted) ==
    With(sorted \o rows, LAMBDA all :
        With({<<PlaceAsc(all, i), i>> : i \in 1..Len(all)}, LAMBDA places :
            [k \in 1..Len(all) |-> all[(CHOOSE p \in places : p[1] = k)[2]]]))

\* The WHERE clause of ChatDatabaseManager.searchMessages.
SearchWhere(r, term) ==
    \/ Like(r.text, term)
    \/ Like(r.subject, term)
    \/ Like(r.associated_message_guid, term)
    \/ Like(r.handle_name, term)
    \/ Like(r.chat_identifier, term)
    \/ Like(r.chat_display_name, term)

\* ChatDatabaseManager.searchMessages: the statement has no LIMIT, the limit
\* argument is not used.
NativeSearchMessages(st, term, limit) ==
    OrderByDateDesc(
        SelectSeq(AllJoinedRows(st, 1), LAMBDA r : SearchWhere(r, term)), <<>>)

\* The Phase 2 statement of CustomDatabaseService.searchMessages.
BroadQuery(st) == OrderByDateDesc(AllJoinedRows(st, 1), <<>>)

(***************************************************************************)
(* CustomDatabaseService.searchMessages                                    *)
(***************************************************************************)
\* The ProcessedMessage built from a row; t is the clock reading of the call.
ProcessedOf(msg, chatId, t) ==
    [id |-> msg.id,
     text |-> extractMessageText(msg),
     timestamp |-> convertAppleTimestamp(msg.date, t),
     chatId |-> chatId]

\* Phase 2 comparing the decoded text with the term as typed.
AttributedBodyMatchesCaseSensitive(broadRows, directRows, searchTerm) ==
    SelectSeq(broadRows, LAMBDA msg :
        /\ ~\E i \in 1..Len(directRows) : directRows[i].id = msg.id
        /\ Includes(extractMessageText(msg), searchTerm))

\* Phase 2: the rows of the broad query that are not among the Phase 1 rows
\* and whose decoded text holds the term.
AttributedBodyMatches(broadRows, directRows, searchTerm) ==
    SelectSeq(broadRows, LAMBDA msg :
        /\ ~\E i \in 1..Len(directRows) : directRows[i].id = msg.id
        /\ Includes(ToLowerCase(extractMessageText(msg)),
                    ToLowerCase(searchTerm)))

\* allMatches.sort((a, b) => b.date - a.date): a stable sort.
SortByDateDesc(rows) == OrderByDateDesc(rows, <<>>)

\* Array.prototype.slice(0, n) for n >= 0.
SliceTo(seq, n) == SubSeq(seq, 1, IF n < Len(seq) THEN n ELSE Len(seq))

\* The list searchMessages resolves to when both queries succeed.
searchMessages(st, searchTerm, limit, t) ==
    LET directRows == NativeSearchMessages(st, searchTerm, limit)
        attributedBodyMatches ==
            AttributedBodyMatches(BroadQuery(st), directRows, searchTerm)
        allMatches == directRows \o attributedBodyMatches
        sortedMatches == SliceTo(SortByDateDesc(allMatches), limit)
    IN  [i \in 1..Len(sortedMatches) |->
            ProcessedOf(sortedMatches[i], sortedMatches[i].chat_id, t)]

\* Bounded inputs of the calls.
MaxLimit == 2
ClockBase == 1700000000
ClockReadings == {ClockBase, ClockBase + 1}
Terms == {sHelloName, sHi, sRich}

\* Which statement of a searchMessages call the native module rejects.
SearchFaults == {"none", "phase1 rejects", "phase2 rejects"}

\* searchMessages going on without the rows of a rejected statement.
searchMessagesCallLenient(st, searchTerm, limit, t, fault) ==
    IF fault = "none"
    THEN [status |-> "ok", statements |-> 2,
          messages |-> searchMessages(st, searchTerm, limit, t)]
    ELSE LET directRows == IF fault = "phase1 rejects" THEN <<>>
                           ELSE NativeSearchMessages(st, searchTerm, limit)
             broadRows == IF fault = "phase2 rejects" THEN <<>>
                          ELSE BroadQuery(st)
             sortedMatches ==
                 SliceTo(SortByDateDesc(
                     directRows \o AttributedBodyMatches(broadRows, directRows,
                                                         searchTerm)), limit)
         IN  [status |-> "ok", statements |-> 2,
              messages |-> [i \in 1..Len(sortedMatches) |->
                  ProcessedOf(sortedMatches[i], sortedMatches[i].chat_id, t)]]

\* The try / catch of searchMessages: an awaited statement that rejects
\* throws out of the try block, the catch block rethrows.  statements counts
\* the statements issued.
searchMessagesCall(st, searchTerm, limit, t, fault) ==
    IF fault = "phase1 rejects"
    THEN [status |-> "error", statements |-> 1, messages |-> <<>>]
    ELSE IF fault = "phase2 rejects"
    THEN [status |-> "error", statements |-> 2, messages |-> <<>>]
    ELSE [status |-> "ok", statements |-> 2,
          messages |-> searchMessages(st, searchTerm, limit, t)]

\* One call of searchMessages on an open connection.  Either query of the
\* native module may reject.
SearchMessages ==
    /\ svc.connected
    /\ ret = NoRet
    /\ \E searchTerm \in Terms, limit \in 1..MaxLimit, t \in ClockReadings,
          fault \in SearchFaults :
        /\ ret' = [op |-> "searchMessages", searchTerm |-> searchTerm,
                   limit |-> limit, clock |-> t, fault |-> fault]
                  @@ searchMessagesCall(store, searchTerm, limit, t, fault)
        /\ UNCHANGED <<row, decoded, store, svc, ui>>

(***************************************************************************)
(* getMessagesForChat and getMessagesAroundMessage                         *)
(***************************************************************************)
\* WHERE cmj.chat_id = ? AND (m.service NOT IN ('SMS', 'RCS') OR m.service IS
\* NULL) AND (m.text IS NOT NULL OR m.attributedBody IS NOT NULL)
ChatWhere(m, chatId) ==
    /\ chatId \in m.chats
    /\ m.service \notin {"SMS", "RCS"}
    /\ (m.text # Null \/ m.attributedBody # Null)

\* The rows of the chat's messages, in ROWID (scan) order.
ChatRows(st, chatId, i) ==
    With(SelectSeq(SubSeq(st, i, Len(st)), LAMBDA m : ChatWhere(m, chatId)),
         LAMBDA selected :
            [k \in 1..Len(selected) |-> JoinedRow(selected[k], chatId)])

\* LIMIT limit OFFSET offset, for limit >= 0 and offset >= 0.
LimitOffset(rows, limit, offset) ==
    SubSeq(rows, offset + 1,
           IF offset + limit < Len(rows) THEN offset + limit ELSE Len(rows))

\* ChatDatabaseManager.getMessagesForChat: ORDER BY m.date DESC LIMIT ? OFFSET ?
NativeGetMessagesForChat(st, chatId, limit, offset) ==
    LimitOffset(OrderByDateDesc(ChatRows(st, chatId, 1), <<>>), limit, offset)

\* The page handed back as fetched, most recent first.
NotReversed(seq) == seq

\* Array.prototype.reverse
Reverse(seq) ==
    With(seq, LAMBDA array :
        [i \in 1..Len(array) |-> array[Len(array) + 1 - i]])

\* The list getMessagesForChat resolves to when the query succeeds.
getMessagesForChat(st, chatId, limit, offset, t) ==
    With(NativeGetMessagesForChat(st, chatId, limit, offset), LAMBDA rows :
        Reverse([i \in 1..Len(rows) |-> ProcessedOf(rows[i], chatId, t)]))

\* The statement of getMessagesAroundMessage: the chat's rows, ORDER BY m.date ASC.
AllMessagesOfChat(st, chatId) == OrderByDateAsc(ChatRows(st, chatId, 1), <<>>)

\* allMessages.findIndex(msg => msg.id === targetMessageId), 0-based, -1 if none.
FindIndex(rows, targetMessageId) ==
    LET hits == {i \in 1..Len(rows) : rows[i].id = targetMessageId}
    IN  IF hits = {} THEN -1
        ELSE (CHOOSE i \in hits : \A j \in hits : i <= j) - 1

Max(a, b) == IF a > b THEN a ELSE b
Min(a, b) == IF a < b THEN a ELSE b

\* getMessagesAroundMessage with a window that starts at the target.
ContextWindowFromTarget(allMessages, targetIndex, contextSize, chatId, t) ==
    LET startIndex == targetIndex
        endIndex == Min(Len(allMessages), targetIndex + contextSize + 1)
        contextMessages == SubSeq(allMessages, startIndex + 1, endIndex)
    IN  [messages |-> [i \in 1..Len(contextMessages) |->
                          ProcessedOf(contextMessages[i], chatId, t)],
         targetIndex |-> targetIndex - startIndex]

\* The found branch of getMessagesAroundMessage: the slice and the re-based index.
ContextWindow(allMessages, targetIndex, contextSize, chatId, t) ==
    LET startIndex == Max(0, targetIndex - contextSize)
        endIndex == Min(Len(allMessages), targetIndex + contextSize + 1)
        contextMessages == SubSeq(allMessages, startIndex + 1, endIndex)
    IN  [messages |-> [i \in 1..Len(contextMessages) |->
                          ProcessedOf(contextMessages[i], chatId, t)],
         targetIndex |-> targetIndex - startIndex]

\* The page size of the fallback getMessagesForChat(chatId, 100, 0).
FallbackPageSize == 100

\* Bounded inputs of the chat calls.
PageSizes == {1, 2, 10}
Offsets == {0, 1, 2}
ContextSizes == {0, 1}

\* The clock readings a call on chat chatId can observe: new Date() is
\* evaluated only by convertAppleTimestamp of a row whose date is 0.
ClockReadingsFor(st, chatId) ==
    IF \E i \in 1..Len(st) : ChatWhere(st[i], chatId) /\ st[i].date = Big(0, 0)
    THEN ClockReadings ELSE {ClockBase}

\* One call of getMessagesForChat on an open connection; the native query
\* may reject, and the catch block rethrows.
GetMessagesForChat ==
    /\ svc.connected
    /\ ret = NoRet
    /\ \E chatId \in ChatIds, limit \in PageSizes, offset \in Offsets,
          rejects \in BOOLEAN :
        \E t \in IF rejects THEN {ClockBase}
                 ELSE ClockReadingsFor(store, chatId) :
        /\ ret' = [op |-> "getMessagesForChat",
                   status |-> IF rejects THEN "error" ELSE "ok",
                   chatId |-> chatId, limit |-> limit, offset |-> offset,
                   messages |-> IF rejects THEN <<>>
                                ELSE getMessagesForChat(store, chatId, limit,
                                                        offset, t)]
        /\ UNCHANGED <<row, decoded, store, svc, ui>>

\* Which of the statements a call issues are rejected by the native module,
\* in the order issued; statements the call never reaches do not count.
FaultPlans == {<<FALSE, FALSE, FALSE>>, <<FALSE, TRUE, FALSE>>,
               <<FALSE, TRUE, TRUE>>, <<TRUE, FALSE, FALSE>>,
               <<TRUE, TRUE, FALSE>>}

\* getMessagesAroundMessage raising an error when the target is absent.
getMessagesAroundMessageThrowing(st, chatId, targetMessageId, contextSize, t, plan) ==
    LET allMessages == AllMessagesOfChat(st, chatId)
        targetIndex == FindIndex(allMessages, targetMessageId)
        fallback == [status |-> "ok", targetIndex |-> -1,
                     messages |-> getMessagesForChat(st, chatId,
                                                     FallbackPageSize, 0, t)]
        thrown == [status |-> "error", targetIndex |-> -1, messages |-> <<>>]
    IN  IF plan[1]
        THEN IF plan[2] THEN thrown ELSE fallback
        ELSE IF targetIndex = -1
        THEN thrown
        ELSE [status |-> "ok"]
             @@ ContextWindow(allMessages, targetIndex, contextSize, chatId, t)

\* The outcome of getMessagesAroundMessage under a fault plan.
getMessagesAroundMessage(st, chatId, targetMessageId, contextSize, t, plan) ==
    LET allMessages == AllMessagesOfChat(st, chatId)
        targetIndex == FindIndex(allMessages, targetMessageId)
        fallback == [status |-> "ok", targetIndex |-> -1,
                     messages |-> getMessagesForChat(st, chatId,
                                                     FallbackPageSize, 0, t)]
        thrown == [status |-> "error", targetIndex |-> -1, messages |-> <<>>]
    IN  IF plan[1]
        THEN \* the catch block: one fallback attempt, its error is not caught
             IF plan[2] THEN thrown ELSE fallback
        ELSE IF targetIndex = -1
        THEN \* fallback inside try; when it throws the catch block retries
             IF ~plan[2] THEN fallback
             ELSE IF plan[3] THEN thrown ELSE fallback
        ELSE [status |-> "ok"]
             @@ ContextWindow(allMessages, targetIndex, contextSize, chatId, t)

RejectedCount(st, chatId, targetMessageId, plan) ==
    IF plan[1] THEN (IF plan[2] THEN 2 ELSE 1)
    ELSE IF FindIndex(AllMessagesOfChat(st, chatId), targetMessageId) # -1 THEN 0
    ELSE IF ~plan[2] THEN 0
    ELSE IF plan[3] THEN 2 ELSE 1

\* One call of getMessagesAroundMessage on an open connection.
GetMessagesAroundMessage ==
    /\ svc.connected
    /\ ret = NoRet
    /\ \E chatId \in ChatIds, targetMessageId \in 1..(Len(store) + 1),
          contextSize \in ContextSizes, plan \in FaultPlans :
        \E t \in ClockReadingsFor(store, chatId) :
        /\ ret' = [op |-> "getMessagesAroundMessage",
                   chatId |-> chatId, targetMessageId |-> targetMessageId,
                   contextSize |-> contextSize, located |-> ~plan[1],
                   rejected |-> RejectedCount(store, chatId, targetMessageId, plan)]
                  @@ getMessagesAroundMessage(store, chatId, targetMessageId,
                                              contextSize, t, plan)
        /\ UNCHANGED <<row, decoded, store, svc, ui>>

(***************************************************************************)
(* Search specification: a bounded store, searched any number of times     *)
(***************************************************************************)
MaxSearchMsgs == 2

\* Raw dates: 0, 10 s, 2 000 000 s, and 1 000 005 s written in nanoseconds.
Dates == {Big(0, 0), Big(0, 10), Big(0, 2000000), Big(1000005, 0)}

\* text and blob of the scenario's messages A and B.
ContentA == [text |-> sHi, attributedBody |-> Null, bodyForm |-> "string",
             cache_has_attachments |-> 0]
ContentB == [text |-> Null, attributedBody |-> ScenarioBlobB,
             bodyForm |-> "bytes", cache_has_attachments |-> 0]

MessageOf(i, content, date, service, chats) ==
    [id |-> i, text |-> content.text, attributedBody |-> content.attributedBody,
     bodyForm |-> content.bodyForm,
     cache_has_attachments |-> content.cache_has_attachments,
     date |-> date, service |-> service, chats |-> chats]

\* Stores of n messages, ROWIDs 1..n, each drawn from the given domains.
StoresOf(n, contents, dates, services, chatSets) ==
    [1..n -> [content : contents, date : dates, service : services,
              chats : chatSets]]

BuildStore(f) ==
    [i \in DOMAIN f |->
        MessageOf(i, f[i].content, f[i].date, f[i].service, f[i].chats)]

SearchStores ==
    {BuildStore(f) :
        f \in UNION {StoresOf(n, {ContentA, ContentB}, Dates, {"iMessage"},
                              {{}, {1}, {1, 2}}) : n \in 1..MaxSearchMsgs}}

InitSearch ==
    /\ row = NoRow
    /\ decoded = Null
    /\ store \in SearchStores
    /\ ret = NoRet
    /\ svc = OpenService
    /\ ui = NewScreen

NextSearch == SearchMessages

SpecSearch == InitSearch /\ [][NextSearch]_vars

\* A second call of searchMessages with the term and limit of the first, on
\* the unchanged store, at the same or a later clock reading.
SearchMessagesAgain ==
    /\ svc.connected
    /\ ret.op = "searchMessages"
    /\ ret.status = "ok"
    /\ \E t \in {u \in ClockReadings : u >= ret.clock}, fault \in SearchFaults :
        ret' = [op |-> "searchMessages again", searchTerm |-> ret.searchTerm,
                limit |-> ret.limit, clock |-> t, fault |-> fault,
                first |-> ret.messages]
               @@ searchMessagesCall(store, ret.searchTerm, ret.limit, t, fault)
    /\ UNCHANGED <<row, decoded, store, svc, ui>>

NextSearchAgain == SearchMessages \/ SearchMessagesAgain

SpecSearchAgain == InitSearch /\ [][NextSearchAgain]_vars

\* A blob without printable run: the decoder finds nothing and returns the
\* placeholder of its last line.
ContentUndecodable == [text |-> Null, attributedBody |-> sSep \o sSep,
                       bodyForm |-> "bytes", cache_has_attachments |-> 0]

\* Stores whose messages have no text: a decodable blob or an undecodable one.
ScanStores ==
    {BuildStore(f) :
        f \in UNION {StoresOf(n, {ContentB, ContentUndecodable}, {Big(0, 10)},
                              {"iMessage"}, {{1}}) : n \in 1..MaxSearchMsgs}}

InitScan ==
    /\ row = NoRow
    /\ decoded = Null
    /\ store \in ScanStores
    /\ ret = NoRet
    /\ svc = OpenService
    /\ ui = NewScreen

NextScan == SearchMessages

SpecScan == InitScan /\ [][NextScan]_vars

\* handleSearchResultSelected's service call on a result of the search just
\* made: getMessagesAroundMessage(r.chatId, r.id, h) for a result r that has a
\* chat, on the unchanged store, no statement rejected.
LocateSearchResult ==
    /\ svc.connected
    /\ ret.op = "searchMessages"
    /\ ret.status = "ok"
    /\ \E k \in 1..Len(ret.messages), contextSize \in ContextSizes :
        /\ ret.messages[k].chatId # 0
        /\ ret' = [op |-> "getMessagesAroundMessage of result",
                   chatId |-> ret.messages[k].chatId,
                   targetMessageId |-> ret.messages[k].id,
                   contextSize |-> contextSize]
                  @@ getMessagesAroundMessage(store, ret.messages[k].chatId,
                         ret.messages[k].id, contextSize, ret.clock,
                         <<FALSE, FALSE, FALSE>>)
    /\ UNCHANGED <<row, decoded, store, svc, ui>>

\* Stores with iMessage and SMS messages, in chat 1 or in no chat.
LocateStores ==
    {BuildStore(f) :
        f \in UNION {StoresOf(n, {ContentA, ContentB},
                              {Big(0, 10), Big(0, 2000000)},
                              {"iMessage", "SMS"}, {{}, {1}})
                     : n \in 1..MaxSearchMsgs}}

InitLocate ==
    /\ row = NoRow
    /\ decoded = Null
    /\ store \in LocateStores
    /\ ret = NoRet
    /\ svc = OpenService
    /\ ui = NewScreen

NextLocate == SearchMessages \/ LocateSearchResult

SpecLocate == InitLocate /\ [][NextLocate]_vars

(***************************************************************************)
(* Chat specification: a bounded store, one page or context call           *)
(***************************************************************************)
MaxChatMsgs == 3

ContentNone == [text |-> Null, attributedBody |-> Null, bodyForm |-> "string",
                cache_has_attachments |-> 1]

\* Raw dates: 0, 10 s, 2 000 000 s, and 1 000 005 s written in nanoseconds.
ChatDates == {Big(0, 0), Big(0, 10), Big(0, 2000000), Big(1000005, 0)}

\* A message of chat 1 that the chat queries select (message A at any of the
\* dates, message B at 10 s), or one they leave out: an SMS, a message
\* without text and blob, a message of chat 2.
ChatMessageChoices ==
    [content : {ContentA}, date : ChatDates, service : {"iMessage"},
     chats : {{1}}]
    \cup {[content |-> ContentB, date |-> Big(0, 10), service |-> "iMessage",
           chats |-> {1}],
          [content |-> ContentA, date |-> Big(0, 10), service |-> "SMS",
           chats |-> {1}],
          [content |-> ContentNone, date |-> Big(0, 10), service |-> "iMessage",
           chats |-> {1}],
          [content |-> ContentA, date |-> Big(0, 10), service |-> "iMessage",
           chats |-> {2}]}

ChatStores ==
    {BuildStore(f) :
        f \in UNION {[1..n -> ChatMessageChoices] : n \in 1..MaxChatMsgs}}

InitChat ==
    /\ row = NoRow
    /\ decoded = Null
    /\ store \in ChatStores
    /\ ret = NoRet
    /\ svc = OpenService
    /\ ui = NewScreen

NextChat == GetMessagesForChat \/ GetMessagesAroundMessage

SpecChat == InitChat /\ [][NextChat]_vars

(***************************************************************************)
(* MainScreen: handleChatSelected, loadMoreMessages, handleMessageSearch   *)
(* and handleSearchResultSelected over the service, each handler running   *)
(* up to its await and resuming when its call settles or times out         *)
(***************************************************************************)
\* getMessagesForChat(chat.id, 100, offset), setMessageOffset(100).
PageSize == 100
\* getMessagesAroundMessage(chat.id, message.id, 50)
ContextSize == 50
\* searchMessages(query, 100)
SearchLimit == 100

\* At most this many handler invocations, and this many calls that fail or
\* time out, in a behaviour.
MaxCalls == 3
MaxFaults == 1

\* The state a render captures.
Snapshot(u) ==
    [selectedChat |-> u.selectedChat, isLoading |-> u.isLoading,
     isLoadingMoreMessages |-> u.isLoadingMoreMessages,
     hasMoreMessages |-> u.hasMoreMessages,
     messageOffset |-> u.messageOffset, searchResults |-> u.searchResults,
     searchQuery |-> u.searchQuery]

\* A service call a handler awaits under withTimeout.
Call(handler, chat, offset, target, query) ==
    [handler |-> handler, chat |-> chat, offset |-> offset, target |-> target,
     query |-> query, abandoned |-> FALSE]

\* Array without its i-th element.
RemoveAt(seq, i) == SubSeq(seq, 1, i - 1) \o SubSeq(seq, i + 1, Len(seq))

\* hasMore set whatever the page holds.
HasMoreAlways(count) == TRUE

\* chatMessages.length === 100, moreMessages.length === 100
HasMore(count) == count = PageSize

\* handleChatSelected up to its await.
handleChatSelected(u, chat) ==
    [u EXCEPT !.selectedChat = chat, !.isLoading = TRUE, !.messages = <<>>,
              !.messageOffset = 0, !.hasMoreMessages = TRUE,
              !.calls = Append(@, Call("handleChatSelected", chat, 0, 0, <<>>)),
              !.issued = Append(@, <<chat, 0>>), !.returned = -1]

\* handleChatSelected after its await: the page arrived, or the call threw.
ChatMessagesLoaded(u, chatMessages) ==
    [u EXCEPT !.messages = chatMessages, !.messageOffset = PageSize,
              !.hasMoreMessages = HasMore(Len(chatMessages)),
              !.isLoading = FALSE,
              !.returned = Len(chatMessages),
              !.emptyFetches = @ + (IF Len(chatMessages) = 0 THEN 1 ELSE 0)]

ChatMessagesFailed(u) == [u EXCEPT !.isLoading = FALSE]

\* loadMoreMessages up to its await, reading the state of the render that
\* created it.
loadMoreMessages(u) ==
    IF u.seen.selectedChat = 0 \/ u.seen.isLoadingMoreMessages
       \/ ~u.seen.hasMoreMessages
    THEN u
    ELSE [u EXCEPT !.isLoadingMoreMessages = TRUE,
                   !.calls = Append(@, Call("loadMoreMessages",
                                            u.seen.selectedChat,
                                            u.seen.messageOffset, 0, <<>>)),
                   !.issued = Append(@, <<u.seen.selectedChat,
                                          u.seen.messageOffset>>)]

\* loadMoreMessages after its await.
MoreMessagesLoaded(u, moreMessages) ==
    IF Len(moreMessages) > 0
    THEN [u EXCEPT !.messages = @ \o moreMessages,
                   !.messageOffset = @ + Len(moreMessages),
                   !.hasMoreMessages = HasMore(Len(moreMessages)),
                   !.isLoadingMoreMessages = FALSE,
                   !.returned = Len(moreMessages)]
    ELSE [u EXCEPT !.hasMoreMessages = FALSE,
                   !.isLoadingMoreMessages = FALSE,
                   !.returned = 0, !.emptyFetches = @ + 1]

MoreMessagesFailed(u) == [u EXCEPT !.isLoadingMoreMessages = FALSE]

\* handleMessageSearch up to its await, or to its return for a blank query.
handleMessageSearch(u, query) ==
    IF Trim(query) = <<>>
    THEN [u EXCEPT !.searchQuery = query, !.searchResults = <<>>]
    ELSE [u EXCEPT !.searchQuery = query, !.isSearching = TRUE,
                   !.calls = Append(@, Call("handleMessageSearch", 0, 0, 0,
                                            query))]

\* handleMessageSearch after its await.
SearchLoaded(u, results) ==
    [u EXCEPT !.searchResults = results, !.isSearching = FALSE]

SearchFailed(u) == [u EXCEPT !.isSearching = FALSE]

\* handleSearchResultSelected up to its await, or to its return when the
\* message's chat is not in the list.
handleSearchResultSelected(u, message) ==
    IF message.chatId \notin u.chats
    THEN u
    ELSE [u EXCEPT !.selectedChat = message.chatId, !.searchQuery = <<>>,
                   !.searchResults = <<>>, !.isLoading = TRUE,
                   !.calls = Append(@, Call("handleSearchResultSelected",
                                            message.chatId, 0, message.id,
                                            <<>>))]

\* handleSearchResultSelected after its await: the window arrived.
ContextLoaded(u, result) ==
    [u EXCEPT !.messages = result.messages,
              !.messageOffset = Len(result.messages),
              !.hasMoreMessages = TRUE, !.isLoading = FALSE,
              !.returned = -1]

\* The catch block of handleSearchResultSelected: await handleChatSelected(chat).
ContextFailed(u, chat) == handleChatSelected(u, chat)

\* The handler of call c resumes after a rejected or timed-out await.
Failed(u, c) ==
    IF c.handler = "handleChatSelected" THEN ChatMessagesFailed(u)
    ELSE IF c.handler = "loadMoreMessages" THEN MoreMessagesFailed(u)
    ELSE IF c.handler = "handleMessageSearch" THEN SearchFailed(u)
    ELSE ContextFailed(u, c.chat)

\* What the service call of c settles with on the store: every outcome the
\* native statements' success or rejection allows.
Outcomes(st, c) ==
    IF c.handler \in {"handleChatSelected", "loadMoreMessages"}
    THEN {[status |-> "ok",
           messages |-> getMessagesForChat(st, c.chat, PageSize, c.offset,
                                           ClockBase)],
          [status |-> "error", messages |-> <<>>]}
    ELSE IF c.handler = "handleMessageSearch"
    THEN {[status |-> r.status, messages |-> r.messages] :
             r \in {searchMessagesCall(st, c.query, SearchLimit, ClockBase, f)
                       : f \in SearchFaults}}
    ELSE {[status |-> r.status, messages |-> r.messages] :
             r \in {getMessagesAroundMessage(st, c.chat, c.target, ContextSize,
                                             ClockBase, plan)
                       : plan \in {<<FALSE, FALSE, FALSE>>,
                                   <<TRUE, TRUE, FALSE>>}}}

\* The handler of call c resumes with the value its await resolved to.
Loaded(u, c, o) ==
    IF c.handler = "handleChatSelected" THEN ChatMessagesLoaded(u, o.messages)
    ELSE IF c.handler = "loadMoreMessages" THEN MoreMessagesLoaded(u, o.messages)
    ELSE IF c.handler = "handleMessageSearch" THEN SearchLoaded(u, o.messages)
    ELSE ContextLoaded(u, o)

\* A timeout that stops the call it gave up on.
ExpireAndCancel(u, i) ==
    [Failed([u EXCEPT !.calls = RemoveAt(@, i)], u.calls[i])
        EXCEPT !.faults = @ + 1]

\* withTimeout: the timer rejects the race; the handler resumes in its catch
\* block, the service call goes on without anyone awaiting it.
Expire(u, i) ==
    [Failed([u EXCEPT !.calls[i].abandoned = TRUE], u.calls[i])
        EXCEPT !.faults = @ + 1]

\* A chat of the list is pressed.
HandleChatSelected ==
    /\ ui.invoked < MaxCalls
    /\ \E chat \in ui.chats :
        ui' = [handleChatSelected(ui, chat) EXCEPT !.invoked = @ + 1]
    /\ UNCHANGED <<row, decoded, store, ret, svc>>

\* MessageThread.handleScroll near the bottom of the list it rendered: it
\* calls onLoadMore when the props of that render allow it.
HandleScroll ==
    /\ ui.invoked < MaxCalls
    /\ ui.seen.selectedChat # 0
    /\ ~ui.seen.isLoading
    /\ ui.seen.hasMoreMessages
    /\ ~ui.seen.isLoadingMoreMessages
    /\ ui' = [loadMoreMessages(ui) EXCEPT !.invoked = @ + 1]
    /\ UNCHANGED <<row, decoded, store, ret, svc>>

\* The texts typed into the message search field.
Queries == {sHi, <<>>}

\* ConversationList's debounce effect: onMessageSearch(messageSearchText)
\* when the trimmed text differs from the searchQuery it rendered.
HandleMessageSearch ==
    /\ ui.invoked < MaxCalls
    /\ \E query \in Queries :
        /\ Trim(query) # ui.seen.searchQuery
        /\ ui' = [handleMessageSearch(ui, query) EXCEPT !.invoked = @ + 1]
    /\ UNCHANGED <<row, decoded, store, ret, svc>>

\* A search result of the rendered list is pressed.
HandleSearchResultSelected ==
    /\ ui.invoked < MaxCalls
    /\ \E k \in 1..Len(ui.seen.searchResults) :
        ui' = [handleSearchResultSelected(ui, ui.seen.searchResults[k])
                  EXCEPT !.invoked = @ + 1]
    /\ UNCHANGED <<row, decoded, store, ret, svc>>

\* A service call settles.  The handler that awaits it resumes; a call whose
\* handler gave up on it ends unobserved.
Settle ==
    /\ svc.connected
    /\ \E i \in 1..Len(ui.calls) :
        LET c == ui.calls[i]
            rest == [ui EXCEPT !.calls = RemoveAt(@, i)]
        IN  \E o \in Outcomes(store, c) :
                /\ o.status = "error" => ui.faults < MaxFaults
                /\ ui' = IF c.abandoned THEN rest
                         ELSE IF o.status = "ok" THEN Loaded(rest, c, o)
                         ELSE [Failed(rest, c) EXCEPT !.faults = @ + 1]
    /\ UNCHANGED <<row, decoded, store, ret, svc>>

\* The timer of withTimeout fires before the call settled.
Timeout ==
    /\ ui.faults < MaxFaults
    /\ \E i \in 1..Len(ui.calls) :
        /\ ~ui.calls[i].abandoned
        /\ ui' = Expire(ui, i)
    /\ UNCHANGED <<row, decoded, store, ret, svc>>

\* React renders the component with the current state.
Render ==
    /\ ui.seen # Snapshot(ui)
    /\ ui' = [ui EXCEPT !.seen = Snapshot(ui)]
    /\ UNCHANGED <<row, decoded, store, ret, svc>>

\* A text that neither search term matches.
ContentHello == [text |-> sHello, attributedBody |-> Null,
                 bodyForm |-> "string", cache_has_attachments |-> 0]

\* Chat 1 with n messages, ROWIDs and raw dates ascending together, the
\* oldest and the most recent holding "hi".
LongThread(n) ==
    [i \in 1..n |->
        [content |-> IF i = 1 \/ i = n THEN ContentA ELSE ContentHello,
         date |-> Big(0, 10 + i), service |-> "iMessage", chats |-> {1}]]

\* The thread of chat 1 and one older message in chat 2.
ThreadStore(n) ==
    BuildStore(LongThread(n) \o
               <<[content |-> ContentA, date |-> Big(0, 5),
                  service |-> "iMessage", chats |-> {2}]>>)

\* The chats getChats lists: those with a message the chat queries select.
ListedChats(st) == {c \in ChatIds : ChatRows(st, c, 1) # <<>>}

\* MainScreen after handleDatabaseSelected: connected, the chats listed,
\* rendered, no chat selected.
LoadedScreen(st) == [NewScreen EXCEPT !.chats = ListedChats(st)]

\* A short thread: chat 1 holds two messages.
ScreenStores == {ThreadStore(2)}

InitScreen ==
    /\ row = NoRow
    /\ decoded = Null
    /\ store \in ScreenStores
    /\ ret = NoRet
    /\ svc = OpenService
    /\ ui = LoadedScreen(store)

NextScreen ==
    \/ HandleChatSelected
    \/ HandleScroll
    \/ HandleMessageSearch
    \/ HandleSearchResultSelected
    \/ Settle
    \/ Timeout
    \/ Render

SpecScreen == InitScreen /\ [][NextScreen]_vars

(***************************************************************************)
(* MainScreen over a long thread: the chat is opened from the list or from *)
(* a search result and paged backwards                                     *)
(***************************************************************************)
\* How many messages the chat holds: more than a context window on one side
\* of the target, a full page, a page and one.
ThreadSizes == {ContextSize + 2, PageSize, PageSize + 1}

ThreadStores == {BuildStore(LongThread(n)) : n \in ThreadSizes}

\* MainScreen showing the results of a finished search for "hi": one handler
\* was invoked, its call settled, the screen rendered.
SearchedScreen(st) ==
    LET results == searchMessages(st, sHi, SearchLimit, ClockBase)
    IN  [LoadedScreen(st) EXCEPT
            !.searchQuery = sHi, !.searchResults = results,
            !.seen.searchQuery = sHi, !.seen.searchResults = results,
            !.invoked = 1]

InitThread ==
    /\ row = NoRow
    /\ decoded = Null
    /\ store \in ThreadStores
    /\ ret = NoRet
    /\ svc = OpenService
    /\ ui \in {LoadedScreen(store), SearchedScreen(store)}

NextThread ==
    \/ HandleChatSelected
    \/ HandleScroll
    \/ HandleSearchResultSelected
    \/ Settle
    \/ Render

SpecThread == InitThread /\ [][NextThread]_vars

(***************************************************************************)
(* MainScreen paging one chat backwards: the chat is selected once and     *)
(* loadMoreMessages is invoked again and again, each time after the call   *)
(* before it settled and the screen rendered                               *)
(***************************************************************************)
\* How many messages the chat holds: one, a page less one, a page, a page
\* and one, two pages.
PagingSizes == {1, PageSize - 1, PageSize, PageSize + 1, 2 * PageSize}

PagingStores == {BuildStore(LongThread(n)) : n \in PagingSizes}

\* The chat is pressed, once.
SelectChat ==
    /\ ui.selectedChat = 0
    /\ \E chat \in ui.chats :
        ui' = [handleChatSelected(ui, chat) EXCEPT !.invoked = @ + 1]
    /\ UNCHANGED <<row, decoded, store, ret, svc>>

\* loadMoreMessages is invoked on the rendered screen, no call in flight.
\* An invocation its guard turns away changes nothing.
InvokeLoadMore ==
    /\ ui.selectedChat # 0
    /\ ui.calls = <<>>
    /\ ui.seen = Snapshot(ui)
    /\ ui' = loadMoreMessages(ui)
    /\ UNCHANGED <<row, decoded, store, ret, svc>>

InitPaging ==
    /\ row = NoRow
    /\ decoded = Null
    /\ store \in PagingStores
    /\ ret = NoRet
    /\ svc = OpenService
    /\ ui = LoadedScreen(store)

NextPaging == SelectChat \/ InvokeLoadMore \/ Settle \/ Render

\* The user goes on selecting and paging, every call settles, React renders.
SpecPaging ==
    /\ InitPaging
    /\ [][NextPaging]_vars
    /\ WF_vars(SelectChat)
    /\ WF_vars(InvokeLoadMore)
    /\ WF_vars(Settle)
    /\ WF_vars(Render)


(***************************************************************************)
(* Decoder harness: one MessageRow drawn from bounded inputs, decoded once *)
(***************************************************************************)
MaxChunks == 3

\* The pieces a blob of the bounded inputs is made of.
Chunks == {sSep, sNSString, sHelloWorld, sAbcd, sPadHey, sUnderscores,
           sQuotedHi, sPlistHi}

RECURSIVE Concat(_)
Concat(cs) == IF cs = <<>> THEN <<>> ELSE Head(cs) \o Concat(Tail(cs))

Blobs == {Null} \cup
         {Concat(cs) : cs \in UNION {[1..n -> Chunks] : n \in 0..MaxChunks}}

Texts == {Null, <<>>, <<32, 32>>, sHi, <<32>> \o sHello \o <<10>>}

HarnessRows ==
    [text : Texts, attributedBody : Blobs, bodyForm : BodyForms,
     cache_has_attachments : {0, 1}]

InitDecode ==
    /\ row \in HarnessRows
    /\ decoded = Null
    /\ store = <<>>
    /\ ret = NoRet
    /\ svc = OpenService
    /\ ui = NewScreen

\* One call of extractMessageText on the row.
Decode ==
    /\ decoded = Null
    /\ decoded' = extractMessageText(row)
    /\ UNCHANGED <<row, store, ret, svc, ui>>

NextDecode == Decode

SpecDecode == InitDecode /\ [][NextDecode]_vars

(***************************************************************************)
(* Normalizer harness: one raw timestamp drawn from bounded inputs,        *)
(* converted once                                                          *)
(***************************************************************************)
\* Raw timestamps hi * 10^9 + lo around 0, around +-1e15 and around the
\* largest Date.
RawTimestamps ==
    {Big(hi, lo) :
        hi \in {-2000000, -1000001, -1000000, -1, 0, 1, 8639, 8641, 999999,
                1000000, 1000001, 1000005, 700000000},
        lo \in {0, 1, 10, 999999, 1000000, 123456789, 999999999}}

InitNormalize ==
    /\ row = NoRow
    /\ decoded = Null
    /\ store = <<>>
    /\ ret \in {[op |-> "pending", timestamp |-> raw] : raw \in RawTimestamps}
    /\ svc = OpenService
    /\ ui = NewScreen

\* One call of convertAppleTimestamp on the raw timestamp.
ConvertAppleTimestamp ==
    /\ ret.op = "pending"
    /\ \E t \in IF ret.timestamp = Big(0, 0) THEN ClockReadings ELSE {ClockBase} :
        ret' = [op |-> "convertAppleTimestamp", timestamp |-> ret.timestamp,
                date |-> convertAppleTimestamp(ret.timestamp, t)]
    /\ UNCHANGED <<row, decoded, store, svc, ui>>

NextNormalize == ConvertAppleTimestamp

SpecNormalize == InitNormalize /\ [][NextNormalize]_vars

(***************************************************************************)
(* Properties of the decoder                                               *)
(***************************************************************************)
\* s is t without its leading and trailing white space.
IsTrimmedOf(s, t) ==
    \E i \in 1..(Len(t) + 1), j \in 0..Len(t) :
        /\ s = SubSeq(t, i, j)
        /\ \A k \in 1..(i - 1) : IsWhite(t[k])
        /\ \A k \in (j + 1)..Len(t) : IsWhite(t[k])
        /\ s # <<>> => ~IsWhite(s[1]) /\ ~IsWhite(s[Len(s)])

Blank(t) == t = Null \/ \A k \in 1..Len(t) : IsWhite(t[k])

\* The maximal printable runs of s, as <<first, last>> positions.
RunStarts(s) ==
    {i \in 1..Len(s) : IsPrintable(s[i]) /\ (i = 1 \/ ~IsPrintable(s[i - 1]))}
RunEnds(s) ==
    {j \in 1..Len(s) : IsPrintable(s[j]) /\ (j = Len(s) \/ ~IsPrintable(s[j + 1]))}
MaximalRuns(s) ==
    {<<i, CHOOSE j \in RunEnds(s) :
              j >= i /\ \A k \in RunEnds(s) : k >= i => j <= k>> : i \in RunStarts(s)}

NoiseTokens == {sNSString, sNSMutable, sCFString, sBplist, sUnderscores}

\* The runs of at least n characters that carry no noise token.
QualifyingRuns(s, n) ==
    {p \in MaximalRuns(s) :
        /\ p[2] - p[1] + 1 >= n
        /\ \A t \in NoiseTokens : ~Includes(SubSeq(s, p[1], p[2]), t)}

\* decoded is a longest run of QualifyingRuns(s, n), trimmed.
IsLongestQualifyingRun(s, n) ==
    \E p \in QualifyingRuns(s, n) :
        /\ \A q \in QualifyingRuns(s, n) : q[2] - q[1] <= p[2] - p[1]
        /\ IsTrimmedOf(decoded, SubSeq(s, p[1], p[2]))

\* C1: a message whose plain text is not blank decodes to exactly that text
\* trimmed, whatever its blob and attachment flag; a blank text (null, empty,
\* white space only) is never returned trimmed: the other branches decide.
C1_PlainTextTrimmed ==
    decoded # Null =>
        /\ ~Blank(row.text) =>
              IsTrimmedOf(decoded, row.text) /\ decoded # <<>>
        /\ Blank(row.text) /\ BodyTruthy(row) => decoded = DecodeBody(row)
        /\ Blank(row.text) /\ ~BodyTruthy(row) =>
              decoded = IF row.cache_has_attachments = 1
                        THEN sAttachment ELSE sEmptyMessage

C1_Witness ==
    /\ row.text = <<32>> \o sHello \o <<10>>
    /\ row.attributedBody = sHelloWorld
    /\ row.cache_has_attachments = 1
    /\ decoded = sHello

\* C2 as claimed: with a blank text and a blob holding a printable run of at
\* least 4 bytes without noise token, decode returns the longest such run,
\* trimmed.
C2_RunOfFourReturned ==
    (decoded # Null /\ Blank(row.text) /\ row.attributedBody # Null
        /\ QualifyingRuns(row.attributedBody, MinRun) # {})
    => IsLongestQualifyingRun(row.attributedBody, MinRun)

\* C2 as amended: with a blank text and a blob holding a printable run of at
\* least 5 bytes (more than MinRun) without noise token, decode returns the
\* longest such run, trimmed, also when other runs are noise; the scenario's
\* message B decodes to "hello world".
C2_RunOfFiveReturned ==
    /\ (decoded # Null /\ Blank(row.text) /\ row.attributedBody # Null
          /\ QualifyingRuns(row.attributedBody, MinRun + 1) # {})
       => IsLongestQualifyingRun(row.attributedBody, MinRun + 1)
    /\ (decoded # Null /\ Blank(row.text) /\ row.attributedBody = ScenarioBlobB)
       => decoded = sHelloWorld

C2_Witness ==
    /\ row.text = Null
    /\ row.attributedBody = ScenarioBlobB
    /\ row.bodyForm = "bytes"
    /\ decoded = sHelloWorld

\* C20: whatever the form of the blob (string or byte array), the decoder
\* never returns a printable run of the blob that contains a structural-noise
\* token (NSString, NSMutable, CFString, bplist, __).
C20_NoNoiseRunReturned ==
    (decoded # Null /\ Blank(row.text) /\ BodyTruthy(row)) =>
        ~\E p \in MaximalRuns(row.attributedBody) :
            /\ IsTrimmedOf(decoded, SubSeq(row.attributedBody, p[1], p[2]))
            /\ \E t \in NoiseTokens :
                  Includes(SubSeq(row.attributedBody, p[1], p[2]), t)

(***************************************************************************)
(* Properties of searchMessages                                            *)
(***************************************************************************)
SearchReturned == ret.op = "searchMessages" /\ ret.status = "ok"

ReturnedIds == {ret.messages[i].id : i \in 1..Len(ret.messages)}

\* The scenario store: A (text "hi", t = 0 s) and B (no text, the blob, t = 10 s)
\* in chat 1.
ScenarioStore ==
    <<MessageOf(1, ContentA, Big(0, 0), "iMessage", {1}),
      MessageOf(2, ContentB, Big(0, 10), "iMessage", {1})>>

\* Message m has no plain text and its blob decodes to a text holding term,
\* letter case apart.
BlobHoldsTerm(m, term) ==
    /\ Blank(m.text)
    /\ m.attributedBody # Null
    /\ Includes(ToLowerCase(extractMessageText(m)), ToLowerCase(term))

\* C3: searchMessages returns every message whose plain text is empty and
\* whose decoded blob text holds the term case-insensitively, unless the list
\* was cut at limit; over the scenario store a search for "Hello" returns [B].
C3_BlobMatchesFound ==
    SearchReturned =>
        /\ \A i \in 1..Len(store) :
              BlobHoldsTerm(store[i], ret.searchTerm) =>
                  store[i].id \in ReturnedIds \/ Len(ret.messages) = ret.limit
        /\ (store = ScenarioStore /\ ret.searchTerm = sHelloName) =>
              /\ Len(ret.messages) = 1
              /\ ret.messages[1].id = 2
              /\ ret.messages[1].text = sHelloWorld

C3_Witness ==
    /\ SearchReturned
    /\ store = ScenarioStore
    /\ ret.searchTerm = sHelloName
    /\ ret.limit = 1
    /\ ReturnedIds = {2}

\* C4: no message id appears twice in the list searchMessages returns.
C4_NoDuplicateIds ==
    SearchReturned =>
        \A i, j \in 1..Len(ret.messages) :
            i # j => ret.messages[i].id # ret.messages[j].id

\* The joined rows that match in Phase 1 or in Phase 2.
MatchingRows(term) ==
    SelectSeq(AllJoinedRows(store, 1), LAMBDA r :
        \/ SearchWhere(r, term)
        \/ Includes(ToLowerCase(extractMessageText(r)), ToLowerCase(term)))

\* C5: the returned list has at most limit entries, no entry's normalized
\* timestamp is later than its predecessor's, and no match left out is more
\* recent than a returned one.
C5_SortedByTimestampAndCut ==
    SearchReturned =>
        LET all == MatchingRows(ret.searchTerm)
            stamp(r) == convertAppleTimestamp(r.date, ret.clock)
        IN  /\ Len(ret.messages) <= ret.limit
            /\ \A i \in 1..(Len(ret.messages) - 1) :
                  ~DateLess(ret.messages[i].timestamp,
                            ret.messages[i + 1].timestamp)
            /\ \A k \in 1..Len(all) :
                  all[k].id \notin ReturnedIds =>
                      \A i \in 1..Len(ret.messages) :
                          ~DateLess(ret.messages[i].timestamp, stamp(all[k]))

\* C16: a searchMessages call whose Phase 1 statement is rejected ends in one
\* error, with no result list and without the Phase 2 statement being
\* issued; a call whose Phase 2 statement is rejected ends in one error with
\* no result list as well.
C16_SearchFailureIsOneError ==
    ret.op = "searchMessages" =>
        /\ ret.fault = "phase1 rejects" =>
              ret.status = "error" /\ ret.messages = <<>> /\ ret.statements = 1
        /\ ret.fault = "phase2 rejects" =>
              ret.status = "error" /\ ret.messages = <<>> /\ ret.statements = 2
        /\ ret.fault = "none" => ret.status = "ok"

\* Phase 1 rejected on a store where a search without failure finds messages.
C16_Witness ==
    /\ ret.op = "searchMessages"
    /\ ret.fault = "phase1 rejects"
    /\ ret.status = "error"
    /\ searchMessages(store, ret.searchTerm, ret.limit, ret.clock) # <<>>

\* C18: every message searchMessages returns has a chat_message_join row and
\* carries the id of a chat it is joined to: a message without resolvable
\* chat is never returned.
C18_SearchResultsHaveAChat ==
    SearchReturned =>
        \A k \in 1..Len(ret.messages) :
            /\ store[ret.messages[k].id].chats # {}
            /\ ret.messages[k].chatId \in store[ret.messages[k].id].chats

\* C19: two searchMessages calls with the same term and limit on an
\* unchanged store return the same list: the same messages in the same
\* order with the same field values, timestamps included.
C19_SearchIsIdempotent ==
    (ret.op = "searchMessages again" /\ ret.status = "ok") =>
        ret.messages = ret.first

\* The decoder found no text in the message: it returned a placeholder.
Placeholders == {sRichText, sAttachment, sEmptyMessage}
DecodeFailed(m) == extractMessageText(m) \in Placeholders

\* The message is among the rows of the Phase 1 statement.
FoundByPhase1(m, searchTerm, limit) ==
    LET directRows == NativeSearchMessages(store, searchTerm, limit)
    IN  \E i \in 1..Len(directRows) : directRows[i].id = m.id

\* C21: a message whose blob decode failed is a non-match of Phase 2 for
\* every search term: a returned message whose decode failed was found by
\* Phase 1.
C21_DecodeFailureIsNonMatch ==
    SearchReturned =>
        \A k \in 1..Len(ret.messages) :
            DecodeFailed(store[ret.messages[k].id]) =>
                FoundByPhase1(store[ret.messages[k].id], ret.searchTerm,
                              ret.limit)

(***************************************************************************)
(* Properties of getMessagesForChat and getMessagesAroundMessage           *)
(***************************************************************************)
\* The messages of the chat that have recoverable content and are no SMS/RCS.
InChat(chatId) ==
    {i \in 1..Len(store) :
        /\ chatId \in store[i].chats
        /\ store[i].service \notin {"SMS", "RCS"}
        /\ ~(store[i].text = Null /\ store[i].attributedBody = Null)}

\* Position of message i in the chat's most-recent-first sequence: raw date
\* descending, equal dates in ROWID order.
RankDescending(i, chatId) ==
    1 + Cardinality({j \in InChat(chatId) :
            \/ BigLess(store[i].date, store[j].date)
            \/ store[j].date = store[i].date /\ j < i})

MostRecentFirst(chatId) ==
    [k \in 1..Cardinality(InChat(chatId)) |->
        CHOOSE i \in InChat(chatId) : RankDescending(i, chatId) = k]

\* Position of message i in the chat's ascending sequence: raw date ascending,
\* equal dates in ROWID order.
RankAscending(i, chatId) ==
    1 + Cardinality({j \in InChat(chatId) :
            \/ BigLess(store[j].date, store[i].date)
            \/ store[j].date = store[i].date /\ j < i})

OldestFirst(chatId) ==
    [k \in 1..Cardinality(InChat(chatId)) |->
        CHOOSE i \in InChat(chatId) : RankAscending(i, chatId) = k]

IdsOf(msgs) == [k \in 1..Len(msgs) |-> msgs[k].id]

AroundReturned == ret.op = "getMessagesAroundMessage" /\ ret.status = "ok"
PageReturned == ret.op = "getMessagesForChat" /\ ret.status = "ok"

\* C6: when the target is at 0-based position pos of the chat's ascending
\* sequence of length L, the call returns the slice
\* [max(0, pos - h), min(L, pos + h + 1)) and targetIndex = pos - max(0, pos - h),
\* so the target sits at targetIndex; the slice has min(L, 2h + 1) messages
\* unless a chat boundary cuts the window; the scenario gives ([A, B], 1).
C6_WindowAroundTarget ==
    ret.op = "getMessagesAroundMessage" =>
        LET seq == OldestFirst(ret.chatId)
            L == Len(seq)
            h == ret.contextSize
            found == \E k \in 1..L : seq[k] = ret.targetMessageId
            pos == (CHOOSE k \in 1..L : seq[k] = ret.targetMessageId) - 1
            first == IF pos - h > 0 THEN pos - h ELSE 0
            last == IF pos + h + 1 < L THEN pos + h + 1 ELSE L
        IN  /\ (found /\ ret.rejected = 0) =>
                  ret.status = "ok" /\ ret.targetIndex # -1
            /\ (ret.status = "ok" /\ ret.targetIndex # -1) =>
                  /\ found
                  /\ IdsOf(ret.messages) = SubSeq(seq, first + 1, last)
                  /\ ret.targetIndex = pos - first
                  /\ ret.messages[ret.targetIndex + 1].id = ret.targetMessageId
                  /\ (pos - h >= 0 /\ pos + h + 1 <= L) =>
                        /\ Len(ret.messages) = 2 * h + 1
                        /\ 2 * h + 1 <= L
            /\ (store = ScenarioStore /\ ret.chatId = 1 /\ ret.rejected = 0
                  /\ ret.targetMessageId = 2 /\ ret.contextSize = 1) =>
                  IdsOf(ret.messages) = <<1, 2>> /\ ret.targetIndex = 1

\* A window cut at the end of the chat: three messages, target last, h = 1.
C6_Witness ==
    /\ AroundReturned
    /\ Cardinality(InChat(ret.chatId)) = 3
    /\ ret.contextSize = 1
    /\ ret.targetIndex = 1
    /\ Len(ret.messages) = 2
    /\ store[ret.targetMessageId].date = Big(1000005, 0)

\* The default page: the (at most) FallbackPageSize most recent messages of
\* the chat, oldest first.
DefaultPageIds(chatId) ==
    LET q == MostRecentFirst(chatId)
        n == IF Len(q) < FallbackPageSize THEN Len(q) ELSE FallbackPageSize
    IN  [k \in 1..n |-> q[n + 1 - k]]

TargetAbsent ==
    /\ ret.op = "getMessagesAroundMessage"
    /\ ret.located
    /\ ret.targetMessageId \notin InChat(ret.chatId)

\* C7 as claimed: when the target is absent from the chat's sequence the call
\* never raises an error and returns the default page with targetIndex = -1.
C7_AbsentNeverRaises ==
    TargetAbsent =>
        /\ ret.status = "ok"
        /\ ret.targetIndex = -1
        /\ IdsOf(ret.messages) = DefaultPageIds(ret.chatId)

\* C7 as amended: when the target is absent the call returns the default page
\* with targetIndex = -1, and raises an error only when the fallback page
\* query was rejected both inside the try block and in the catch block.
C7_AbsentFallsBack ==
    TargetAbsent =>
        /\ ret.status = "error" <=> ret.rejected = 2
        /\ ret.status = "ok" =>
              /\ ret.targetIndex = -1
              /\ IdsOf(ret.messages) = DefaultPageIds(ret.chatId)

C7_Witness ==
    /\ TargetAbsent
    /\ ret.status = "ok"
    /\ ret.rejected = 0
    /\ ret.targetIndex = -1
    /\ Len(ret.messages) = 2

\* C8: the page is the slice offset .. offset + limit - 1 of the chat's
\* most-recent-first sequence, returned oldest first; in the scenario
\* getMessagesForChat(chat, 10, 0) is [A, B] and B's text is "hello world".
C8_PageIsReversedSlice ==
    PageReturned =>
        LET q == MostRecentFirst(ret.chatId)
            last == IF ret.offset + ret.limit < Len(q)
                    THEN ret.offset + ret.limit ELSE Len(q)
            n == IF last > ret.offset THEN last - ret.offset ELSE 0
        IN  /\ Len(ret.messages) = n
            /\ \A k \in 1..n : ret.messages[k].id = q[last + 1 - k]
            /\ \A k \in 1..n : ret.messages[k].chatId = ret.chatId
            /\ (store = ScenarioStore /\ ret.chatId = 1 /\ ret.limit = 10
                  /\ ret.offset = 0) =>
                  /\ IdsOf(ret.messages) = <<1, 2>>
                  /\ ret.messages[1].text = sHi
                  /\ ret.messages[2].text = sHelloWorld

\* The second page of a chat of three messages with distinct dates.
C8_Witness ==
    /\ PageReturned
    /\ Cardinality(InChat(ret.chatId)) = 3
    /\ ret.limit = 1
    /\ ret.offset = 1
    /\ Len(ret.messages) = 1
    /\ store[ret.messages[1].id].date = Big(0, 10)
    /\ \E i \in InChat(ret.chatId) : store[i].date = Big(0, 0)
    /\ \E i \in InChat(ret.chatId) : store[i].date = Big(1000005, 0)

\* The page at offset 0 of the same chat and page size, on the unchanged store.
FirstPageIds ==
    IdsOf(getMessagesForChat(store, ret.chatId, ret.limit, 0, ClockBase))

SecondPageReturned == PageReturned /\ ret.offset = ret.limit

\* C9: with no write between the calls, getPage(chat, n, 0) ++
\* getPage(chat, n, n) is the first 2n messages of the chat in chronological
\* order (all of them when the chat has fewer): no id twice, none of the
\* chat's messages between them left out, each not older than the one
\* before it.
C9_PagesJoinChronologically ==
    SecondPageReturned =>
        LET both == FirstPageIds \o IdsOf(ret.messages)
            L == Cardinality(InChat(ret.chatId))
            n == IF 2 * ret.limit < L THEN 2 * ret.limit ELSE L
            got == {both[k] : k \in 1..Len(both)}
        IN  /\ Len(both) = n
            /\ Cardinality(got) = n
            /\ got \subseteq InChat(ret.chatId)
            /\ \A i, j \in 1..Len(both) :
                  i < j => ~BigLess(store[both[j]].date, store[both[i]].date)

\* C10: a raw timestamp of 0 is normalized to the Cocoa epoch,
\* 2001-01-01T00:00:00Z, Unix second 978307200.
C10_ZeroIsCocoaEpoch ==
    PageReturned =>
        \A k \in 1..Len(ret.messages) :
            store[ret.messages[k].id].date = Big(0, 0) =>
                ret.messages[k].timestamp = DateOf(Big(0, 978307200), 0)

\* C12: the sequences getMessagesForChat and getMessagesAroundMessage return
\* are in chronological order of the normalized timestamps, whatever the
\* units of the raw dates: no message comes before one whose normalized
\* timestamp is earlier.
C12_OrderedByNormalizedTimestamp ==
    (PageReturned \/ AroundReturned) =>
        \A i, j \in 1..Len(ret.messages) :
            i < j => ~DateLess(ret.messages[j].timestamp,
                               ret.messages[i].timestamp)

\* C17: a statement rejected by the native module makes the operation report
\* an error to its caller: a call of getMessagesAroundMessage in which a
\* statement was rejected never ends with a normal result.
C17_QueryErrorPropagates ==
    (ret.op = "getMessagesAroundMessage" /\ ret.rejected > 0) =>
        ret.status = "error"

\* C27: every search result that has a chat is located in that chat:
\* getMessagesAroundMessage(r.chatId, r.id, h) on the unchanged store gives a
\* targetIndex other than -1 and the message at that index is r.
C27_SearchResultIsLocated ==
    ret.op = "getMessagesAroundMessage of result" =>
        /\ ret.targetIndex # -1
        /\ ret.targetIndex + 1 \in 1..Len(ret.messages)
        /\ ret.messages[ret.targetIndex + 1].id = ret.targetMessageId

(***************************************************************************)
(* Properties of convertAppleTimestamp                                     *)
(***************************************************************************)
\* raw seconds (whole seconds sec, nanos nanoseconds) since the Cocoa epoch
\* as a Date: 978307200 s added, milliseconds kept.
DateOfCocoaSeconds(sec, nanos) ==
    LET l == sec.lo + 978307200
        unix == IF l >= 1000000000 THEN Big(sec.hi + 1, l - 1000000000)
                ELSE Big(sec.hi, l)
    IN  DateOf(unix, nanos \div 1000000)

\* abs(raw) > 1e15
BeyondThreshold(raw) ==
    \/ raw.hi > 1000000
    \/ raw.hi = 1000000 /\ raw.lo > 0
    \/ raw.hi < -1000000

\* The Date is one a Date object can hold (within 8.64e12 s of 1970).
Representable(date) ==
    /\ ~BigLess(Big(8640, 0), date.sec)
    /\ ~BigLess(date.sec, Big(-8640, 0))

\* C11: a raw timestamp other than 0 is taken as nanoseconds exactly when
\* abs(raw) > 1e15, and as seconds otherwise, and 978307200 s are added: for
\* raw > 1e15 and for raw < -1e15 the result is the one the seconds branch
\* gives for raw / 1e9.
C11_NanosecondsBeyondThreshold ==
    (ret.op = "convertAppleTimestamp" /\ ret.timestamp # Big(0, 0)) =>
        LET raw == ret.timestamp
            expected ==
                IF BeyondThreshold(raw)
                THEN DateOfCocoaSeconds(Big(raw.hi \div 1000000000,
                                            raw.hi % 1000000000), raw.lo)
                ELSE DateOfCocoaSeconds(raw, 0)
        IN  Representable(expected) => ret.date = expected

(***************************************************************************)
(* Properties of the connection                                            *)
(***************************************************************************)
\* C13: after any sequence of openDatabase and closeDatabase calls at most
\* one native connection is open, and it is the one the manager holds: an
\* openDatabase on a service that held a connection has closed it.
C13_AtMostOneConnection ==
    /\ Cardinality(svc.open) <= 1
    /\ svc.open \subseteq {svc.db}
    /\ (ret.op = "openDatabase" /\ ret.status = "ok") =>
          svc.open = {svc.opened}

\* A second database opened on a service that held a connection.
C13_Witness ==
    /\ ret.op = "openDatabase"
    /\ ret.status = "ok"
    /\ ret.hadConnection
    /\ svc.opened = 2
    /\ svc.open = {2}
    /\ svc.connected

\* C14: after a failed openDatabase, whatever failed, isConnected() is false,
\* the active database path is null and no native connection is open.
C14_FailedOpenLeavesNothingOpen ==
    (ret.op = "openDatabase" /\ ret.status = "error") =>
        /\ ~svc.connected
        /\ svc.dbPath = NoPath
        /\ svc.open = {}
        /\ svc.db = 0

\* C15: for any interleaving of the handlers' requests at most one statement
\* is being prepared or stepped on the connection handle at any time.
C15_OneStatementAtATime == Cardinality(svc.active) <= 1


\* C29: no statement is prepared or stepped on a connection handle that has
\* been closed: every sqlite3_prepare_v2 is made on an open connection, and
\* the handle of every statement being stepped is an open connection.
C29_NoUseAfterClose ==
    /\ ret.op = "sqlite3_prepare_v2" => ret.open
    /\ \A c \in DOMAIN svc.calls :
          svc.calls[c].pc = "running" => svc.calls[c].db \in svc.open


(***************************************************************************)
(* Properties of MainScreen                                                *)
(***************************************************************************)
\* The calls in flight that were made by the given handlers.
InFlight(handlers) ==
    {i \in 1..Len(ui.calls) : ui.calls[i].handler \in handlers}

MessageLoaders ==
    {"handleChatSelected", "loadMoreMessages", "handleSearchResultSelected"}

\* The calls whose handler gave up on them.
Abandoned(u) == {i \in 1..Len(u.calls) : u.calls[i].abandoned}

C23_ListIsChronological ==
    (/\ ui.faults = 0
     /\ Len(ui.issued) = ui.invoked
     /\ InFlight(MessageLoaders) = {}) =>
        \A k \in 1..(Len(ui.messages) - 1) :
            ~DateLess(ui.messages[k + 1].timestamp, ui.messages[k].timestamp)

\* C24: the expiry of withTimeout hands an error to the handler and does not
\* stop the service call: the call is still in flight after the expiry, the
\* handler has left its try block, and a call given up on ends only by
\* settling.
C24_TimeoutDoesNotStopTheCall ==
    [][/\ Timeout =>
            \E i \in 1..Len(ui.calls) :
                /\ ~ui.calls[i].abandoned
                /\ Len(ui'.calls) >= Len(ui.calls)
                /\ ui'.calls[i] = [ui.calls[i] EXCEPT !.abandoned = TRUE]
                /\ ui.calls[i].handler = "handleMessageSearch" =>
                      /\ ~ui'.isSearching
                      /\ ui'.searchResults = ui.searchResults
       /\ Cardinality(Abandoned(ui')) < Cardinality(Abandoned(ui)) => Settle
      ]_vars

\* A search timed out: MainScreen stopped waiting, the scan is in flight.
C24_Witness ==
    /\ ~ui.isSearching
    /\ \E i \in 1..Len(ui.calls) :
          /\ ui.calls[i].handler = "handleMessageSearch"
          /\ ui.calls[i].abandoned

\* C25: whenever no message load is in flight (and none has failed), every
\* message of the list belongs to the selected chat.
C25_ListBelongsToSelectedChat ==
    (InFlight(MessageLoaders) = {} /\ ui.faults = 0) =>
        \A k \in 1..Len(ui.messages) :
            ui.messages[k].chatId = ui.selectedChat

\* C26: the list never holds the same message id twice.
C26_NoMessageTwice ==
    \A j, k \in 1..Len(ui.messages) :
        j # k => ui.messages[j].id # ui.messages[k].id

\* C28: whenever no search is in flight (and none has failed), the results
\* shown are those of the current searchQuery, none for a blank query: the
\* answer to an earlier query never replaces those of a later one.
C28_ResultsBelongToQuery ==
    (InFlight({"handleMessageSearch"}) = {} /\ ui.faults = 0) =>
        ui.searchResults =
            IF Trim(ui.searchQuery) = <<>> THEN <<>>
            ELSE searchMessages(store, ui.searchQuery, SearchLimit, ClockBase)

\* C30: at most one loadMoreMessages fetch is in flight at a time (no call
\* having failed before).
C30_OneLoadMoreAtATime ==
    ui.faults = 0 => Cardinality(InFlight({"loadMoreMessages"})) <= 1

====
